---- MODULE Spec2Model ----
(***************************************************************************)
(* A model of the pydwf example scripts (src/pydwf-examples).              *)
(*                                                                         *)
(* The module holds one state machine per part of the repository that the  *)
(* properties below are about; each has its own variables, initial         *)
(* predicate, next-state relation and specification:                       *)
(*                                                                         *)
(*   SpecGlobe   AnalogOutSpinningGlobe.py: the frame producer thread, the *)
(*               input watcher thread and the main (analog-out) thread.    *)
(*   SpecRecord  AnalogInRecordMode.py: run_demo's repeated acquisitions.  *)
(*   SpecGshhs   gshhs.py: ensure_gshhs_zipfile_is_available.              *)
(*   SpecScripts main() of the example scripts: the library is created,    *)
(*               the device opened, the demo run and the device closed.    *)
(*                                                                         *)
(* The variables of the parts a specification does not run keep their      *)
(* initial values.                                                         *)
(***************************************************************************)
EXTENDS Integers, Sequences, FiniteSets, TLC

Min(a, b) == IF a <= b THEN a ELSE b

(***************************************************************************)
(* Bounds of the model.                                                    *)
(***************************************************************************)
\* Frames the producer may render in one run (the code renders without end).
MaxFrames == 7
\* Largest frame, in blocks of 1024 samples (samples_per_frame).
MaxFrameBlocks == 3
\* Largest free space an instrument reports, in blocks of 1024 samples.
MaxFreeBlocks == 3
\* Acquisitions run_demo performs in one run (the code repeats until the plot
\* window is closed).
MaxAcquisitions == 2
\* status()/statusRecord() polls of one acquisition.
MaxPolls == 2
\* Calls of ensure_gshhs_zipfile_is_available, one after the other, on the same
\* directory.
MaxEnsureCalls == 2
\* Passes of the unbounded loops (while True) of a script in one run.
MaxIter == 2

(***************************************************************************)
(* AnalogOutSpinningGlobe.py                                               *)
(***************************************************************************)
VARIABLES
    event,              \* threading.Event: TRUE once set
    frame_queue,        \* queue.Queue(maxsize=5): the frames queued, oldest first
    frame,              \* frame_producer: its frame counter
    prodPc,             \* frame_producer thread: where it is
    inputPc,            \* wait_for_input thread: where it is
    mainPc,             \* main thread: where it is in main()/spinning_globe_demo
    mainExc,            \* the exception that ended spinning_globe_demo, or "none"
    xy,                 \* the frame the analog-out loop holds (-1: none yet)
    samples_per_frame,  \* round(sample_frequency / fps), in blocks
    samples_left,       \* of the frame held, the blocks not yet pushed
    transfer_possible,  \* min(ch1_samples_free, ch2_samples_free) of the last poll
    consumed,           \* history: the frames frame_queue.get() returned, in order
    excAt               \* history: where the main thread was when mainExc was raised

globeVars == <<event, frame_queue, frame, prodPc, inputPc, mainPc, mainExc, xy,
               samples_per_frame, samples_left, transfer_possible, consumed, excAt>>

(***************************************************************************)
(* AnalogInRecordMode.py, run_demo                                         *)
(***************************************************************************)
VARIABLES
    recPc,                   \* run_demo: where it is
    recExc,                  \* the exception that ended run_demo, or "none"
    trigger_flag,            \* args.trigger
    num_samples,             \* round(sample_frequency * record_length)
    acquisition_nr,          \* the acquisition number
    samples,                 \* samples while polling: the list of chunks
    record,                  \* samples once concatenated and cut to length
    total_samples_lost,
    total_samples_corrupted,
    status,                  \* the DwfState the last status(True) returned
    polls                    \* history: the polls of the acquisition, in order

recordVars == <<recPc, recExc, trigger_flag, num_samples, acquisition_nr, samples,
                record, total_samples_lost, total_samples_corrupted, status, polls>>

(***************************************************************************)
(* gshhs.py, ensure_gshhs_zipfile_is_available                             *)
(***************************************************************************)
VARIABLES
    gzPc,               \* ensure_gshhs_zipfile_is_available: where it is
    gzExc,              \* the exception it raised, or "none"
    zipfile,            \* _GSHHS_ZIPFILE on disk: "absent", "empty", "partial", "complete"
    response,           \* the user's answer to the prompt, a string (of characters)
    ensureCalls,        \* history: the calls made so far
    fileAtCall,         \* history: zipfile when the current call began
    prompted,           \* history: the current call asked the user
    downloadStarted     \* history: the current call began to download

gshhsVars == <<gzPc, gzExc, zipfile, response, ensureCalls, fileAtCall, prompted,
               downloadStarted>>

(***************************************************************************)
(* main() of the example scripts                                           *)
(***************************************************************************)
VARIABLES
    script,             \* the script that is run
    sPc,                \* main: "lib", "open", "body", "exit", "handlers", "done"
    ip,                 \* the instruction of the with statement's body that is next
    iter,               \* passes of the unbounded loops made so far
    rep,                \* DigitalIO.py: the passes of its for loop made so far
    device,             \* the device: "unopened", "open", "closed"
    pending,            \* the exception that is propagating, or "none"
    outcome,            \* how main ended: "none", "returned", "printed", "propagated"
    failedAt,           \* history: the instruction of the first call that raised PyDwfError, or 0
    afterFail,          \* history: the instructions of the calls issued after that one
    callLog,            \* history: the instructions of the calls issued, in their order
    deviceLog           \* history: "open", "call" (once for a run of calls), "close"

scriptVars == <<script, sPc, ip, iter, rep, device, pending, outcome, failedAt,
                afterFail, callLog, deviceLog>>

(***************************************************************************)
(* gshhs.py, GSHHS_Polygon                                                 *)
(***************************************************************************)
VARIABLES
    bits,               \* poly_header["flag"]: the positions of the bits that are 1
    flag,               \* GSHHS_Polygon.flag
    property,           \* the property of the polygon read last, or "none"
    value               \* what that property returned

polygonVars == <<bits, flag, property, value>>

(***************************************************************************)
(* The settings helpers: set_analog_output_node_settings,                  *)
(* change_digital_output_global_settings,                                  *)
(* change_digital_output_channel_settings                                  *)
(***************************************************************************)
VARIABLES
    helper,             \* the helper that is called
    args,               \* its optional arguments: <<>> is None, <<v>> is the value v
    registers,          \* the settings of the instrument, by the name of their setter
    setPc,              \* the if statement that is next; 0 when PyDwfError was raised
    setterCalls,        \* history: the setter calls made, <<setter, value>> each
    before              \* history: the settings when the helper was called

settingsVars == <<helper, args, registers, setPc, setterCalls, before>>

(***************************************************************************)
(* analog_output_node_utilities.py, analog_output_signal_simulator         *)
(***************************************************************************)
VARIABLES
    carrier_settings,   \* AnalogOutNodeSettings of the carrier
    am_settings,        \* Optional: <<>> is None, <<settings>> the AM node's settings
    fm_settings,        \* Optional: <<>> is None, <<settings>> the FM node's settings
    t,                  \* the time points, in quarters of a second
    simPc,              \* "call", "returned", "raised"
    waveform            \* the values returned, in units of 1/400

simVars == <<carrier_settings, am_settings, fm_settings, t, simPc, waveform>>

vars == <<globeVars, recordVars, gshhsVars, scriptVars, polygonVars, settingsVars, simVars>>

\* What a specification that does not run the spinning globe leaves alone.
notGlobe == <<recordVars, gshhsVars, scriptVars, polygonVars, settingsVars, simVars>>
\* What a specification that does not run the record-mode demo leaves alone.
notRecord == <<globeVars, gshhsVars, scriptVars, polygonVars, settingsVars, simVars>>
\* What a specification that does not run the GSHHS download leaves alone.
notGshhs == <<globeVars, recordVars, scriptVars, polygonVars, settingsVars, simVars>>
\* What a specification that does not run the scripts' main() leaves alone.
notScripts == <<globeVars, recordVars, gshhsVars, polygonVars, settingsVars, simVars>>
\* What a specification that does not run GSHHS_Polygon leaves alone.
notPolygon == <<globeVars, recordVars, gshhsVars, scriptVars, settingsVars, simVars>>
\* What a specification that does not run the settings helpers leaves alone.
notSettings == <<globeVars, recordVars, gshhsVars, scriptVars, polygonVars, simVars>>
\* What a specification that does not run the signal simulator leaves alone.
notSimulator == <<globeVars, recordVars, gshhsVars, scriptVars, polygonVars, settingsVars>>

\* queue.Queue(maxsize=5)
QueueMaxsize == 5

\* transfer_possible >= min(2048, samples_left): 2048 samples are 2 blocks.
MinTransferBlocks == 2

\* queue.Queue.put appends at the tail; queue.Queue.get takes the head.
QueuePutLifo(q, x) == <<x>> \o q
QueuePut(q, x) == Append(q, x)

\* put() blocks while the queue holds maxsize items.
QueueFull(q) == Len(q) >= QueueMaxsize

\* threading.Thread.is_alive(): started and its target has not returned.
ProducerAlive == prodPc \notin {"unstarted", "dead"}
InputAlive == inputPc \notin {"unstarted", "dead"}

GlobeInit ==
    /\ event = FALSE
    /\ frame_queue = <<>>
    /\ frame = 0
    /\ prodPc = "unstarted"
    /\ inputPc = "unstarted"
    /\ mainPc = "count"
    /\ mainExc = "none"
    /\ xy = -1
    /\ samples_per_frame \in 0..MaxFrameBlocks
    /\ samples_left = 0
    /\ transfer_possible = 0
    /\ consumed = <<>>
    /\ excAt = "none"

\* The state before the demo is run (for the specifications of the other parts).
GlobeIdle ==
    /\ event = FALSE
    /\ frame_queue = <<>>
    /\ frame = 0
    /\ prodPc = "unstarted"
    /\ inputPc = "unstarted"
    /\ mainPc = "count"
    /\ mainExc = "none"
    /\ xy = -1
    /\ samples_per_frame = 1
    /\ samples_left = 0
    /\ transfer_possible = 0
    /\ consumed = <<>>
    /\ excAt = "none"

(*------------------------- frame_producer thread -------------------------*)

\* while not event.is_set(): the loop is entered or left.
ProducerCheck ==
    /\ prodPc = "check"
    /\ prodPc' = IF event THEN "end" ELSE "render"
    /\ UNCHANGED <<event, frame_queue, frame, inputPc, mainPc, mainExc, xy,
                   samples_per_frame, samples_left, transfer_possible, consumed, excAt>>
    /\ UNCHANGED notGlobe

\* The frame is rendered (lines 126-164) from the frame counter.
ProducerRender ==
    /\ prodPc = "render"
    /\ frame < MaxFrames
    /\ prodPc' = "put"
    /\ UNCHANGED <<event, frame_queue, frame, inputPc, mainPc, mainExc, xy,
                   samples_per_frame, samples_left, transfer_possible, consumed, excAt>>
    /\ UNCHANGED notGlobe

\* frame_queue.put(xy); frame += 1. put() blocks while the queue is full.
ProducerPut ==
    /\ prodPc = "put"
    /\ ~QueueFull(frame_queue)
    /\ frame_queue' = QueuePut(frame_queue, frame)
    /\ frame' = frame + 1
    /\ prodPc' = "check"
    /\ UNCHANGED <<event, inputPc, mainPc, mainExc, xy,
                   samples_per_frame, samples_left, transfer_possible, consumed, excAt>>
    /\ UNCHANGED notGlobe

\* print("End of frame_producer."), then the thread's target returns.
ProducerEnd ==
    /\ prodPc = "end"
    /\ prodPc' = "dead"
    /\ UNCHANGED <<event, frame_queue, frame, inputPc, mainPc, mainExc, xy,
                   samples_per_frame, samples_left, transfer_possible, consumed, excAt>>
    /\ UNCHANGED notGlobe

(*------------------------- wait_for_input thread -------------------------*)

\* input() returns: the user pressed Enter.
InputEnter ==
    /\ inputPc = "input"
    /\ inputPc' = "set"
    /\ UNCHANGED <<event, frame_queue, frame, prodPc, mainPc, mainExc, xy,
                   samples_per_frame, samples_left, transfer_possible, consumed, excAt>>
    /\ UNCHANGED notGlobe

\* event.set(), then the thread's target returns.
InputSet ==
    /\ inputPc = "set"
    /\ event' = TRUE
    /\ inputPc' = "dead"
    /\ UNCHANGED <<frame_queue, frame, prodPc, mainPc, mainExc, xy,
                   samples_per_frame, samples_left, transfer_possible, consumed, excAt>>
    /\ UNCHANGED notGlobe

(*------------------------------ main thread ------------------------------*)

\* The positions of the main thread inside the analog-out loop (lines 243-282).
AnalogOutLoop == {"loop", "get", "poll", "play"}

\* The positions of the main thread inside main()'s try block.
MainRunning == {"count", "prepare", "start_producer", "start_input", "configure",
                "join_input", "join_producer"} \cup AnalogOutLoop

\* main(): except PyDwfError / except KeyboardInterrupt print and main() ends;
\* any other exception propagates out of main().
MainHandlers == {"PyDwfError", "KeyboardInterrupt"}
MainAfterRaise(exc) == IF exc \in MainHandlers THEN "handled" ELSE "propagated"

\* channel_count = analogOut.count(); if channel_count == 0: return
MainCount ==
    /\ mainPc = "count"
    /\ \E r \in {"PyDwfError", "zero", "some"} :
        /\ mainPc' = CASE r = "PyDwfError" -> MainAfterRaise(r)
                       [] r = "zero" -> "returned"
                       [] OTHER -> "prepare"
        /\ mainExc' = IF r = "PyDwfError" THEN r ELSE mainExc
        /\ excAt' = IF r = "PyDwfError" THEN mainPc ELSE excAt
    /\ UNCHANGED <<event, frame_queue, frame, prodPc, inputPc, xy,
                   samples_per_frame, samples_left, transfer_possible, consumed>>
    /\ UNCHANGED notGlobe

\* Lines 194-204: the queue, the event and the globe data are made;
\* read_gshhs_globe raises RuntimeError when the data file is not available.
MainPrepare ==
    /\ mainPc = "prepare"
    /\ \E r \in {"RuntimeError", "ok"} :
        /\ mainPc' = IF r = "ok" THEN "start_producer" ELSE MainAfterRaise(r)
        /\ mainExc' = IF r = "ok" THEN mainExc ELSE r
        /\ excAt' = IF r = "ok" THEN excAt ELSE mainPc
    /\ UNCHANGED <<event, frame_queue, frame, prodPc, inputPc, xy,
                   samples_per_frame, samples_left, transfer_possible, consumed>>
    /\ UNCHANGED notGlobe

\* frame_producer_thread.start()
MainStartProducer ==
    /\ mainPc = "start_producer"
    /\ prodPc' = "check"
    /\ mainPc' = "start_input"
    /\ UNCHANGED <<event, frame_queue, frame, inputPc, mainExc, xy,
                   samples_per_frame, samples_left, transfer_possible, consumed, excAt>>
    /\ UNCHANGED notGlobe

\* wait_for_input_thread.start()
MainStartInput ==
    /\ mainPc = "start_input"
    /\ inputPc' = "input"
    /\ mainPc' = "configure"
    /\ UNCHANGED <<event, frame_queue, frame, prodPc, mainExc, xy,
                   samples_per_frame, samples_left, transfer_possible, consumed, excAt>>
    /\ UNCHANGED notGlobe

\* Lines 217-239: the instrument is configured and triggered.
MainConfigure ==
    /\ mainPc = "configure"
    /\ \E r \in {"PyDwfError", "ok"} :
        /\ mainPc' = IF r = "ok" THEN "loop" ELSE MainAfterRaise(r)
        /\ mainExc' = IF r = "ok" THEN mainExc ELSE r
        /\ excAt' = IF r = "ok" THEN excAt ELSE mainPc
    /\ UNCHANGED <<event, frame_queue, frame, prodPc, inputPc, xy,
                   samples_per_frame, samples_left, transfer_possible, consumed>>
    /\ UNCHANGED notGlobe

\* while frame_producer_thread.is_alive() or not frame_queue.empty():
LoopContinues == ProducerAlive \/ frame_queue # <<>>

MainLoop ==
    /\ mainPc = "loop"
    /\ mainPc' = IF LoopContinues THEN "get" ELSE "join_input"
    /\ UNCHANGED <<event, frame_queue, frame, prodPc, inputPc, mainExc, xy,
                   samples_per_frame, samples_left, transfer_possible, consumed, excAt>>
    /\ UNCHANGED notGlobe

\* xy = frame_queue.get(); offset = 0; samples_left = xy.shape[1];
\* while samples_left != 0. get() blocks while the queue is empty.
MainGet ==
    /\ mainPc = "get"
    /\ frame_queue # <<>>
    /\ xy' = Head(frame_queue)
    /\ frame_queue' = Tail(frame_queue)
    /\ consumed' = Append(consumed, Head(frame_queue))
    /\ samples_left' = samples_per_frame
    /\ mainPc' = IF samples_per_frame # 0 THEN "poll" ELSE "loop"
    /\ UNCHANGED <<event, frame, prodPc, inputPc, mainExc,
                   samples_per_frame, transfer_possible, excAt>>
    /\ UNCHANGED notGlobe

\* Lines 257-274: the status of both channels is read and asserted to be
\* Triggered, the free space of both is read; the loop waits (sleeps) until
\* transfer_possible >= min(2048, samples_left).
MainPoll ==
    /\ mainPc = "poll"
    /\ \/ \E r \in {"PyDwfError", "AssertionError"} :
            /\ mainPc' = MainAfterRaise(r)
            /\ mainExc' = r
            /\ excAt' = mainPc
            /\ UNCHANGED transfer_possible
       \/ \E free \in 0..MaxFreeBlocks :
            /\ transfer_possible' = free
            /\ mainPc' = IF free >= Min(MinTransferBlocks, samples_left)
                           THEN "play" ELSE "poll"
            /\ UNCHANGED <<mainExc, excAt>>
    /\ UNCHANGED <<event, frame_queue, frame, prodPc, inputPc, xy,
                   samples_per_frame, samples_left, consumed>>
    /\ UNCHANGED notGlobe

\* Lines 276-282: transfer_samples = min(transfer_possible, samples_left) samples
\* go to both channels (nodePlayData); while samples_left != 0.
MainPlay ==
    /\ mainPc = "play"
    /\ \E r \in {"PyDwfError", "ok"} :
        IF r = "ok"
        THEN /\ samples_left' = samples_left - Min(transfer_possible, samples_left)
             /\ mainPc' = IF samples_left' # 0 THEN "poll" ELSE "loop"
             /\ UNCHANGED <<mainExc, excAt>>
        ELSE /\ mainPc' = MainAfterRaise(r)
             /\ mainExc' = r
             /\ excAt' = mainPc
             /\ UNCHANGED samples_left
    /\ UNCHANGED <<event, frame_queue, frame, prodPc, inputPc, xy,
                   samples_per_frame, transfer_possible, consumed>>
    /\ UNCHANGED notGlobe

\* wait_for_input_thread.join()
MainJoinInput ==
    /\ mainPc = "join_input"
    /\ ~InputAlive
    /\ mainPc' = "join_producer"
    /\ UNCHANGED <<event, frame_queue, frame, prodPc, inputPc, mainExc, xy,
                   samples_per_frame, samples_left, transfer_possible, consumed, excAt>>
    /\ UNCHANGED notGlobe

\* frame_producer_thread.join(), and spinning_globe_demo returns.
MainJoinProducer ==
    /\ mainPc = "join_producer"
    /\ ~ProducerAlive
    /\ mainPc' = "returned"
    /\ UNCHANGED <<event, frame_queue, frame, prodPc, inputPc, mainExc, xy,
                   samples_per_frame, samples_left, transfer_possible, consumed, excAt>>
    /\ UNCHANGED notGlobe

\* The user presses Ctrl-C: KeyboardInterrupt is raised in the main thread,
\* wherever it is (a blocked get() or join() included).
MainKeyboardInterrupt ==
    /\ mainPc \in MainRunning
    /\ mainPc' = MainAfterRaise("KeyboardInterrupt")
    /\ mainExc' = "KeyboardInterrupt"
    /\ excAt' = mainPc
    /\ UNCHANGED <<event, frame_queue, frame, prodPc, inputPc, xy,
                   samples_per_frame, samples_left, transfer_possible, consumed>>
    /\ UNCHANGED notGlobe

GlobeNext ==
    \/ ProducerCheck \/ ProducerRender \/ ProducerPut \/ ProducerEnd
    \/ InputEnter \/ InputSet
    \/ MainCount \/ MainPrepare \/ MainStartProducer \/ MainStartInput
    \/ MainConfigure \/ MainLoop \/ MainGet \/ MainPoll \/ MainPlay
    \/ MainJoinInput \/ MainJoinProducer \/ MainKeyboardInterrupt

(***************************************************************************)
(* AnalogInRecordMode.py, run_demo: the operations.                        *)
(***************************************************************************)

\* Python's round() of the fraction n/d (d > 0, n >= 0): to the nearest integer,
\* a tie to the even one.
PyRound(n, d) ==
    LET q == n \div d
        r == n % d
    IN  IF 2 * r < d THEN q
        ELSE IF 2 * r > d THEN q + 1
        ELSE IF q % 2 = 0 THEN q ELSE q + 1

\* args.sample_frequency in Hz, and args.record_length in tenths of a second.
SampleFrequencies == {3, 5}
RecordLengths == {5, 10}

\* The DwfState values status(True) returns while recording, and at its end.
DwfStates == {"Running", "Done"}

\* The counts of available, lost and corrupted samples statusRecord() reports in
\* one poll.
AvailableCounts == {0, 1, 2}
LostCounts == {0, 2}
CorruptedCounts == {0, 1}

NaN == "nan"

\* np.full((n, 2), np.nan)
NanRows(n) == [i \in 1..n |-> <<NaN, NaN>>]

\* analogIn.statusData(channel_index, n) at poll p: the n samples of the channel.
StatusData(channel_index, p, n) == [i \in 1..n |-> <<channel_index, p, i>>]

\* np.vstack([d0, d1]).transpose(): row i holds sample i of each channel.
VstackTranspose(d0, d1) == [i \in 1..Len(d0) |-> <<d0[i], d1[i]>>]

\* np.concatenate(chunks)
RECURSIVE Concatenate(_)
Concatenate(chunks) ==
    IF chunks = <<>> THEN <<>> ELSE Head(chunks) \o Concatenate(Tail(chunks))

\* Lines 168-181: the chunks one poll appends to samples, lost samples first.
SamplesAfterLost(smp, lost) ==
    IF lost # 0 THEN Append(smp, NanRows(lost)) ELSE smp
SamplesAfterPoll(smp, p, available, lost) ==
    LET withLost == SamplesAfterLost(smp, lost)
    IN  IF available # 0
        THEN Append(withLost, VstackTranspose(StatusData(0, p, available),
                                              StatusData(1, p, available)))
        ELSE withLost

\* Line 156: the totals an acquisition starts from.
TotalAtStartKept(previous) == previous
TotalAtStart(previous) == 0

\* Lines 203-209: all but the last num rows are discarded.
DiscardOldest(rows, num) ==
    IF Len(rows) > num THEN SubSeq(rows, Len(rows) - num + 1, Len(rows)) ELSE rows

\* Lines 183-190: the polling loop is left when status is Done.
LeavesLoopAlways(st) == TRUE
LeavesLoop(st) == st = "Done"

RecordInit ==
    /\ recPc = "start"
    /\ recExc = "none"
    /\ trigger_flag \in BOOLEAN
    /\ \E f \in SampleFrequencies, l \in RecordLengths : num_samples = PyRound(f * l, 10)
    /\ acquisition_nr = 0
    /\ samples = <<>>
    /\ record = <<>>
    /\ total_samples_lost = 0
    /\ total_samples_corrupted = 0
    /\ status = "none"
    /\ polls = <<>>

\* The state before run_demo is run.
RecordIdle ==
    /\ recPc = "start"
    /\ recExc = "none"
    /\ trigger_flag = FALSE
    /\ num_samples = 0
    /\ acquisition_nr = 0
    /\ samples = <<>>
    /\ record = <<>>
    /\ total_samples_lost = 0
    /\ total_samples_corrupted = 0
    /\ status = "none"
    /\ polls = <<>>

\* Lines 148-158: the next acquisition is started.
RecStart ==
    /\ recPc = "start"
    /\ acquisition_nr < MaxAcquisitions
    /\ acquisition_nr' = acquisition_nr + 1
    /\ samples' = <<>>
    /\ record' = <<>>
    /\ total_samples_lost' = TotalAtStart(total_samples_lost)
    /\ total_samples_corrupted' = TotalAtStart(total_samples_corrupted)
    /\ polls' = <<>>
    /\ \E r \in {"PyDwfError", "ok"} :      \* analogIn.configure(False, True)
        /\ recPc' = IF r = "ok" THEN "poll" ELSE "raised"
        /\ recExc' = IF r = "ok" THEN recExc ELSE r
    /\ UNCHANGED <<trigger_flag, num_samples, status>>
    /\ UNCHANGED notRecord

\* Lines 162-190: one pass of the polling loop. failAt names the SDK call of
\* the pass that raises PyDwfError, if one does.
RecPoll ==
    /\ recPc = "poll"
    /\ Len(polls) < MaxPolls
    /\ \E st \in DwfStates, available \in AvailableCounts, lost \in LostCounts,
          corrupted \in CorruptedCounts,
          failAt \in {"none", "status", "statusData", "triggerPositionStatus"} :
        LET p == Len(polls) + 1 IN
        IF failAt = "status"
        THEN /\ recPc' = "raised"
             /\ recExc' = "PyDwfError"
             /\ UNCHANGED <<samples, total_samples_lost, total_samples_corrupted,
                            status, polls>>
        ELSE /\ status' = st
             /\ polls' = Append(polls, [status |-> st, available |-> available,
                                        lost |-> lost, corrupted |-> corrupted])
             /\ total_samples_lost' = total_samples_lost + lost
             /\ total_samples_corrupted' = total_samples_corrupted + corrupted
             /\ IF failAt = "statusData"
                THEN /\ available # 0
                     /\ samples' = SamplesAfterLost(samples, lost)
                     /\ recPc' = "raised"
                     /\ recExc' = "PyDwfError"
                ELSE /\ samples' = SamplesAfterPoll(samples, p, available, lost)
                     /\ IF failAt = "triggerPositionStatus"
                        THEN /\ LeavesLoop(st) /\ trigger_flag
                             /\ recPc' = "raised"
                             /\ recExc' = "PyDwfError"
                        ELSE /\ recPc' = IF LeavesLoop(st) THEN "after" ELSE "poll"
                             /\ UNCHANGED recExc
    /\ UNCHANGED <<trigger_flag, num_samples, acquisition_nr, record>>
    /\ UNCHANGED notRecord

\* Lines 192-209: the warnings are printed, the chunks are concatenated
\* (np.concatenate raises ValueError for an empty list) and the oldest rows
\* are discarded.
RecAssemble ==
    /\ recPc = "after"
    /\ IF samples = <<>>
       THEN /\ recPc' = "raised"
            /\ recExc' = "ValueError"
            /\ UNCHANGED record
       ELSE /\ record' = DiscardOldest(Concatenate(samples), num_samples)
            /\ recPc' = "plot"
            /\ UNCHANGED recExc
    /\ UNCHANGED <<trigger_flag, num_samples, acquisition_nr, samples,
                   total_samples_lost, total_samples_corrupted, status, polls>>
    /\ UNCHANGED notRecord

\* Lines 211-259: the record is plotted; run_demo returns when the user has
\* closed the window and starts the next acquisition otherwise.
RecPlot ==
    /\ recPc = "plot"
    /\ \E closed \in BOOLEAN : recPc' = IF closed THEN "returned" ELSE "start"
    /\ UNCHANGED <<recExc, trigger_flag, num_samples, acquisition_nr, samples, record,
                   total_samples_lost, total_samples_corrupted, status, polls>>
    /\ UNCHANGED notRecord

RecordNext == RecStart \/ RecPoll \/ RecAssemble \/ RecPlot

(***************************************************************************)
(* gshhs.py, ensure_gshhs_zipfile_is_available: the operations.            *)
(***************************************************************************)

\* str.lower(), on the characters the answers are made of.
LowerChar(c) ==
    CASE c = "Y" -> "y"
      [] c = "E" -> "e"
      [] c = "S" -> "s"
      [] c = "N" -> "n"
      [] c = "O" -> "o"
      [] OTHER -> c
PyLower(str) == [i \in DOMAIN str |-> LowerChar(str[i])]

\* Line 132: response.lower() in ("y", "yes")
PermittedAlways(answer) == TRUE
Permitted(answer) == PyLower(answer) \in {<<"y">>, <<"y", "e", "s">>}

\* Line 121: os.path.exists(_GSHHS_ZIPFILE)
Exists(f) == f # "absent"

\* What the user may type at the prompt.
Answers ==
    { <<"y">>, <<"Y">>, <<"y", "e", "s">>, <<"Y", "E", "S">>, <<"Y", "e", "s">>,
      <<"y", "E", "s">>, <<"n">>, <<"N">>, <<"n", "o">>, <<>>, <<"y", "e">>,
      <<"y", " ">>, <<" ", "y">>, <<"o", "k">>, <<"y", "e", "s", "s">> }

GshhsInit ==
    /\ gzPc = "call"
    /\ gzExc = "none"
    /\ zipfile \in {"absent", "partial", "complete"}
    /\ response = <<>>
    /\ ensureCalls = 0
    /\ fileAtCall = zipfile
    /\ prompted = FALSE
    /\ downloadStarted = FALSE

\* The state before the function is called.
GshhsIdle ==
    /\ gzPc = "call"
    /\ gzExc = "none"
    /\ zipfile = "absent"
    /\ response = <<>>
    /\ ensureCalls = 0
    /\ fileAtCall = "absent"
    /\ prompted = FALSE
    /\ downloadStarted = FALSE

\* The function is called (again, after it returned or raised), line 121:
\* it returns at once when the file exists, and prints the request otherwise.
GzCall ==
    /\ gzPc \in {"call", "returned", "raised"}
    /\ ensureCalls < MaxEnsureCalls
    /\ ensureCalls' = ensureCalls + 1
    /\ fileAtCall' = zipfile
    /\ prompted' = FALSE
    /\ downloadStarted' = FALSE
    /\ gzExc' = "none"
    /\ response' = <<>>
    /\ gzPc' = IF Exists(zipfile) THEN "returned" ELSE "prompt"
    /\ UNCHANGED zipfile
    /\ UNCHANGED notGshhs

\* Lines 130-133: the user answers, or the input ends (EOFError).
GzAnswer ==
    /\ gzPc = "prompt"
    /\ prompted' = TRUE
    /\ \/ /\ gzPc' = "raised"
          /\ gzExc' = "EOFError"
          /\ UNCHANGED response
       \/ \E answer \in Answers :
            /\ response' = answer
            /\ gzPc' = IF Permitted(answer) THEN "urlopen" ELSE "raised"
            /\ gzExc' = IF Permitted(answer) THEN gzExc ELSE "RuntimeError"
    /\ UNCHANGED <<zipfile, ensureCalls, fileAtCall, downloadStarted>>
    /\ UNCHANGED notGshhs

\* Lines 135-136: urllib.request.urlopen(_GSHHS_URL) answers or raises.
GzUrlopen ==
    /\ gzPc = "urlopen"
    /\ downloadStarted' = TRUE
    /\ \E r \in {"URLError", "ok"} :
        /\ gzPc' = IF r = "ok" THEN "open" ELSE "raised"
        /\ gzExc' = IF r = "ok" THEN gzExc ELSE r
    /\ UNCHANGED <<zipfile, response, ensureCalls, fileAtCall, prompted>>
    /\ UNCHANGED notGshhs

\* Line 136: open(_GSHHS_ZIPFILE, 'wb') creates the file, empty, or raises.
GzOpen ==
    /\ gzPc = "open"
    /\ \E r \in {"OSError", "ok"} :
        /\ gzPc' = IF r = "ok" THEN "copy" ELSE "raised"
        /\ gzExc' = IF r = "ok" THEN gzExc ELSE r
        /\ zipfile' = IF r = "ok" THEN "empty" ELSE zipfile
    /\ UNCHANGED <<response, ensureCalls, fileAtCall, prompted, downloadStarted>>
    /\ UNCHANGED notGshhs

\* Line 137: shutil.copyfileobj(response, fo) copies all of the file, or raises
\* with part of it written.
GzCopy ==
    /\ gzPc = "copy"
    /\ \E r \in {"OSError", "ok"}, written \in {"empty", "partial"} :
        /\ gzPc' = IF r = "ok" THEN "returned" ELSE "raised"
        /\ gzExc' = IF r = "ok" THEN gzExc ELSE r
        /\ zipfile' = IF r = "ok" THEN "complete" ELSE written
    /\ UNCHANGED <<response, ensureCalls, fileAtCall, prompted, downloadStarted>>
    /\ UNCHANGED notGshhs

GshhsNext == GzCall \/ GzAnswer \/ GzUrlopen \/ GzOpen \/ GzCopy

(***************************************************************************)
(* main() of the example scripts: the programs.  The body of the with      *)
(* statement of main(), with the demo functions it calls, is a sequence of *)
(* instructions: a call of the SDK on the open device, another blocking or *)
(* sleeping call, a test whose outcome the program does not control, a     *)
(* jump to the head of a loop, or a raise.  Each instruction names the     *)
(* source line it stands for; a target one past the end is a return.       *)
(***************************************************************************)
Call(name, line) == [op |-> "call", name |-> name, line |-> line, to |-> 0]
Wait(name, line) == [op |-> "wait", name |-> name, line |-> line, to |-> 0]
Raise(name, line) == [op |-> "raise", name |-> name, line |-> line, to |-> 0]
Branch(name, line, to) == [op |-> "branch", name |-> name, line |-> line, to |-> to]
Jump(name, line, to) == [op |-> "jump", name |-> name, line |-> line, to |-> to]
For(name, line, to) == [op |-> "for", name |-> name, line |-> line, to |-> to]
EndFor(name, line, to) == [op |-> "endfor", name |-> name, line |-> line, to |-> to]

\* DigitalIO.py, line 60: for rep in range(100)
DigitalIOReps == 100

\* AnalogInSimple.py, the body of main's with statement (lines 54-55).
AnalogInSimple ==
    << Call("analogIn.channelCount", 23),
       Branch("channel_count == 0: return", 24, 10),
       Call("analogIn.reset", 28),
       Call("analogIn.status", 31),
       Call("analogIn.statusSample(0)", 33),
       Branch("channel_count == 1", 33, 8),
       Call("analogIn.statusSample(1)", 33),
       Wait("time.sleep", 34),
       Jump("while True", 30, 4) >>

\* AnalogInRecordMode.py, the body of main's with statement (lines 309-338).
AnalogInRecordMode ==
    << Call("analogOut.reset(-1)", 74),
       Call("analogOut.nodeEnableSet(CH1)", 76),
       Call("analogOut.nodeFunctionSet(CH1)", 77),
       Call("analogOut.nodeFrequencySet(CH1)", 78),
       Call("analogOut.nodeAmplitudeSet(CH1)", 79),
       Call("analogOut.nodeOffsetSet(CH1)", 80),
       Call("analogOut.nodePhaseSet(CH1)", 81),
       Call("analogOut.nodeEnableSet(CH2)", 83),
       Call("analogOut.nodeFunctionSet(CH2)", 84),
       Call("analogOut.nodeFrequencySet(CH2)", 85),
       Call("analogOut.nodeAmplitudeSet(CH2)", 86),
       Call("analogOut.nodeOffsetSet(CH2)", 87),
       Call("analogOut.nodePhaseSet(CH2)", 88),
       Call("analogOut.masterSet", 91),
       Call("analogOut.configure", 94),
       Wait("time.sleep", 331),
       Call("analogIn.channelEnableSet(CH1)", 118),
       Call("analogIn.channelFilterSet(CH1)", 119),
       Call("analogIn.channelRangeSet(CH1)", 120),
       Call("analogIn.channelEnableSet(CH2)", 118),
       Call("analogIn.channelFilterSet(CH2)", 119),
       Call("analogIn.channelRangeSet(CH2)", 120),
       Call("analogIn.acquisitionModeSet", 122),
       Call("analogIn.frequencySet", 123),
       Call("analogIn.recordLengthSet", 124),
       Branch("not trigger_flag", 126, 34),
       Call("analogIn.triggerSourceSet", 129),
       Call("analogIn.triggerChannelSet", 130),
       Call("analogIn.triggerTypeSet", 131),
       Call("analogIn.triggerConditionSet", 132),
       Call("analogIn.triggerPositionSet", 133),
       Call("analogIn.triggerLevelSet", 134),
       Call("analogIn.triggerHysteresisSet", 135),
       Call("analogIn.configure", 158),
       Call("analogIn.status(True)", 162),
       Call("analogIn.statusRecord", 163),
       Branch("current_samples_available == 0", 175, 40),
       Call("analogIn.statusData(CH1)", 179),
       Call("analogIn.statusData(CH2)", 179),
       Branch("status == DwfState.Done", 183, 42),
       Jump("while True", 160, 35),
       Branch("not trigger_flag", 186, 44),
       Call("analogIn.triggerPositionStatus", 187),
       Branch("samples", 201, 46),
       Raise("ValueError", 201),
       Wait("plt.pause", 255),
       Branch("len(plt.get_fignums()) == 0: break", 257, 49),
       Jump("while True", 146, 34) >>

\* AnalogInShiftScanShiftScreenDemo.py, the body of main's with statement (lines 161-182).
AnalogInShiftScanShiftScreenDemo ==
    << Call("analogIn.bufferSizeGet", 168),
       Call("analogOut.reset(-1)", 24),
       Call("analogOut.nodeEnableSet(CH1)", 26),
       Call("analogOut.nodeFunctionSet(CH1)", 27),
       Call("analogOut.nodeFrequencySet(CH1)", 28),
       Call("analogOut.nodeAmplitudeSet(CH1)", 29),
       Call("analogOut.nodeOffsetSet(CH1)", 30),
       Call("analogOut.nodePhaseSet(CH1)", 31),
       Call("analogOut.nodeEnableSet(CH2)", 33),
       Call("analogOut.nodeFunctionSet(CH2)", 34),
       Call("analogOut.nodeFrequencySet(CH2)", 35),
       Call("analogOut.nodeAmplitudeSet(CH2)", 36),
       Call("analogOut.nodeOffsetSet(CH2)", 37),
       Call("analogOut.nodePhaseSet(CH2)", 38),
       Call("analogOut.masterSet", 41),
       Call("analogOut.configure", 44),
       Wait("time.sleep", 180),
       Branch("scan_mode in ('ScanShift', 'ScanScreen')", 52, 20),
       Raise("ValueError", 57),
       Call("analogIn.reset", 64),
       Call("analogIn.channelEnableSet(CH1)", 67),
       Call("analogIn.channelFilterSet(CH1)", 68),
       Call("analogIn.channelRangeSet(CH1)", 69),
       Call("analogIn.channelEnableSet(CH2)", 67),
       Call("analogIn.channelFilterSet(CH2)", 68),
       Call("analogIn.channelRangeSet(CH2)", 69),
       Call("analogIn.acquisitionModeSet", 71),
       Call("analogIn.frequencySet", 72),
       Call("analogIn.bufferSizeGet", 75),
       Call("analogIn.configure", 77),
       Call("analogIn.status(True)", 90),
       Call("analogIn.statusData(CH1)", 92),
       Call("analogIn.statusData(CH2)", 99),
       Branch("acquisition_mode != ScanScreen", 106, 36),
       Call("analogIn.statusIndexWrite", 107),
       Wait("plt.pause", 113),
       Branch("len(plt.get_fignums()) == 0: break", 115, 39),
       Jump("while True", 88, 31) >>

\* DigitalIO.py, the body of main's with statement (lines 88-89).
DigitalIO ==
    << Call("digitalIO.reset", 16),
       Call("digitalIO.outputEnableInfo", 20),
       Call("digitalIO.outputEnableInfo64", 21),
       Call("digitalIO.outputEnableGet", 26),
       Call("digitalIO.outputEnableGet64", 27),
       Call("digitalIO.outputInfo", 32),
       Call("digitalIO.outputInfo64", 33),
       Call("digitalIO.outputGet", 38),
       Call("digitalIO.outputGet64", 39),
       Call("digitalIO.inputInfo", 44),
       Call("digitalIO.inputInfo64", 45),
       Call("digitalIO.inputStatus", 50),
       Call("digitalIO.inputStatus64", 51),
       Call("digitalIO.outputEnableGet64", 54),
       Call("digitalIO.outputInfo64", 55),
       Call("digitalIO.outputEnableSet64(all_bits)", 58),
       For("rep in range(100)", 60, 23),
       Call("digitalIO.outputSet64", 62),
       Call("digitalIO.outputGet64", 63),
       Call("digitalIO.inputStatus64", 64),
       Wait("time.sleep", 66),
       EndFor("rep in range(100)", 60, 17),
       Call("digitalIO.outputEnableSet64(save_output_bits)", 68) >>

\* ProtocolCAN.py without the initialising tx(-1, ...) and rx(0) of lines 28 and 31.
ProtocolCANUninitialised ==
    << Call("can.reset", 17),
       Call("can.rateSet", 20),
       Call("can.polaritySet", 21),
       Call("can.txSet", 24),
       Call("can.rxSet", 25),
       Call("can.tx", 37),
       Call("can.rx", 38),
       Wait("time.sleep", 41),
       Jump("while True", 35, 6) >>

\* ProtocolCAN.py, the body of main's with statement (lines 62-63).
ProtocolCAN ==
    << Call("can.reset", 17),
       Call("can.rateSet", 20),
       Call("can.polaritySet", 21),
       Call("can.txSet", 24),
       Call("can.rxSet", 25),
       Call("can.tx(-1)", 28),
       Call("can.rx(0)", 31),
       Call("can.tx", 37),
       Call("can.rx", 38),
       Wait("time.sleep", 41),
       Jump("while True", 35, 8) >>

\* ProtocolUART.py, the body of main's with statement (lines 60-61).
ProtocolUART ==
    << Call("uart.reset", 17),
       Call("uart.rateSet", 20),
       Call("uart.bitsSet", 21),
       Call("uart.paritySet", 22),
       Call("uart.stopSet", 23),
       Call("uart.txSet", 26),
       Call("uart.rxSet", 27),
       Call("uart.rx(0)", 30),
       Call("uart.tx", 36),
       Call("uart.rx(100)", 37),
       Wait("time.sleep", 39),
       Jump("while True", 34, 9) >>

\* ProtocolI2C.py, the body of main's with statement (lines 119-121).
ProtocolI2C ==
    << Call("analogIO.channelNodeSet(0, 0)", 25),
       Call("analogIO.channelNodeSet(0, 1)", 26),
       Call("analogIO.enableSet", 27),
       Call("i2c.reset", 49),
       Call("i2c.stretchSet", 51),
       Call("i2c.rateSet", 52),
       Call("i2c.readNakSet", 53),
       Call("i2c.sclSet", 54),
       Call("i2c.sdaSet", 55),
       Wait("time.sleep", 57),
       Call("i2c.writeRead", 61),
       Branch("device_id != ADXL345_DEVICE_ID: return", 64, 16),
       Call("i2c.write", 78),
       Call("i2c.writeRead", 84),
       Jump("while True", 81, 14) >>

\* ProtocolSPI.py, the body of main's with statement (lines 116-118).
ProtocolSPI ==
    << Call("analogIO.channelNodeSet(0, 0)", 25),
       Call("analogIO.channelNodeSet(0, 1)", 26),
       Call("analogIO.enableSet", 27),
       Call("spi.reset", 55),
       Call("spi.frequencySet", 57),
       Call("spi.clockSet", 59),
       Call("spi.dataSet(0)", 60),
       Call("spi.dataSet(1)", 61),
       Call("spi.idleSet(0)", 63),
       Call("spi.idleSet(1)", 64),
       Call("spi.modeSet", 66),
       Call("spi.orderSet", 68),
       Wait("time.sleep", 70),
       Call("spi.select", 76),
       Call("spi.writeRead", 77),
       Call("spi.select", 78),
       Call("spi.select", 85),
       Call("spi.writeRead", 86),
       Call("spi.select", 87),
       Jump("while True", 81, 17) >>

\* AnalogOutSimple.py with a call of analogOut.configure after the channels are set up.
AnalogOutSimpleConfigured ==
    << Call("analogOut.reset(-1)", 25),
       Call("analogOut.nodeFunctionSet(CH1)", 32),
       Call("analogOut.idleSet(CH1)", 33),
       Call("analogOut.nodeEnableSet(CH1)", 34),
       Call("analogOut.nodeFunctionSet(CH2)", 32),
       Call("analogOut.idleSet(CH2)", 33),
       Call("analogOut.nodeEnableSet(CH2)", 34),
       Call("analogOut.configure", 34),
       Call("analogOut.nodeAmplitudeSet(CH1)", 53),
       Call("analogOut.nodeAmplitudeSet(CH2)", 54),
       Jump("while True", 43, 9) >>

\* AnalogOutSimple.py, the body of main's with statement (lines 81-82).
AnalogOutSimple ==
    << Call("analogOut.reset(-1)", 25),
       Call("analogOut.nodeFunctionSet(CH1)", 32),
       Call("analogOut.idleSet(CH1)", 33),
       Call("analogOut.nodeEnableSet(CH1)", 34),
       Call("analogOut.nodeFunctionSet(CH2)", 32),
       Call("analogOut.idleSet(CH2)", 33),
       Call("analogOut.nodeEnableSet(CH2)", 34),
       Call("analogOut.nodeAmplitudeSet(CH1)", 53),
       Call("analogOut.nodeAmplitudeSet(CH2)", 54),
       Jump("while True", 43, 8) >>

\* AnalogOutPlayCustomWaveform.py, the body of main's with statement (lines 115-121).
AnalogOutPlayCustomWaveform ==
    << Call("analogOut.reset", 22),
       Call("analogOut.device.triggerSet", 25),
       Call("analogOut.nodeEnableSet", 27),
       Call("analogOut.nodeFunctionSet", 28),
       Call("analogOut.nodeAmplitudeInfo", 32),
       Call("analogOut.nodeAmplitudeSet", 34),
       Call("analogOut.nodeOffsetSet", 35),
       Call("analogOut.nodeDataSet", 38),
       Call("analogOut.waitSet", 41),
       Call("analogOut.nodeFrequencySet", 44),
       Call("analogOut.runSet", 47),
       Call("analogOut.repeatSet", 50),
       Call("analogOut.idleSet", 52),
       Call("analogOut.configure", 54),
       Wait("input", 121),
       Branch("Enter", 121, 18),
       Raise("EOFError", 121) >>

\* AnalogOutSpinningGlobe.py, the body of main's with statement (lines 350-357).
AnalogOutSpinningGlobe ==
    << Call("analogOut.count", 187),
       Branch("channel_count == 0: return", 189, 38),
       Branch("read_gshhs_globe", 203, 5),
       Raise("RuntimeError", 203),
       Wait("frame_producer_thread.start", 210),
       Wait("wait_for_input_thread.start", 214),
       Call("analogOut.reset(-1)", 217),
       Call("analogOut.nodeEnableSet(CH1)", 222),
       Call("analogOut.nodeFunctionSet(CH1)", 223),
       Call("analogOut.nodeFrequencySet(CH1)", 224),
       Call("analogOut.nodeAmplitudeSet(CH1)", 225),
       Call("analogOut.nodeEnableSet(CH2)", 227),
       Call("analogOut.nodeFunctionSet(CH2)", 228),
       Call("analogOut.nodeFrequencySet(CH2)", 229),
       Call("analogOut.nodeAmplitudeSet(CH2)", 230),
       Call("analogOut.triggerSourceSet", 232),
       Call("analogOut.masterSet", 235),
       Call("analogOut.configure", 237),
       Call("analogOut.device.triggerPC", 239),
       Branch("not (is_alive() or not empty())", 243, 36),
       Wait("frame_queue.get", 246),
       Branch("samples_left == 0", 253, 35),
       Call("analogOut.status(CH1)", 257),
       Call("analogOut.status(CH2)", 258),
       Branch("Triggered", 260, 27),
       Raise("AssertionError", 260),
       Call("analogOut.nodePlayStatus(CH1)", 263),
       Call("analogOut.nodePlayStatus(CH2)", 266),
       Branch("transfer_possible >= min(2048, samples_left): break", 270, 32),
       Wait("time.sleep", 274),
       Jump("while True", 255, 23),
       Call("analogOut.nodePlayData(CH1)", 278),
       Call("analogOut.nodePlayData(CH2)", 279),
       Jump("while samples_left != 0", 253, 22),
       Jump("while", 243, 20),
       Wait("wait_for_input_thread.join", 286),
       Wait("frame_producer_thread.join", 287) >>

\* DigitalDiscoveryLedBrightnessParameter.py, the body of main's with statement (lines 56-57).
DigitalDiscoveryLedBrightnessParameter ==
    << Call("device.paramSet", 26),
       Jump("while True", 23, 1) >>

Scripts ==
    { "AnalogInSimple",
      "AnalogInRecordMode",
      "AnalogInShiftScanShiftScreenDemo",
      "DigitalIO",
      "ProtocolCAN",
      "ProtocolUART",
      "ProtocolI2C",
      "ProtocolSPI",
      "AnalogOutSimple",
      "AnalogOutPlayCustomWaveform",
      "AnalogOutSpinningGlobe",
      "DigitalDiscoveryLedBrightnessParameter" }

\* The program of each script.
Code ==
    [s \in Scripts |->
        CASE s = "AnalogInSimple" -> AnalogInSimple
          [] s = "AnalogInRecordMode" -> AnalogInRecordMode
          [] s = "AnalogInShiftScanShiftScreenDemo" -> AnalogInShiftScanShiftScreenDemo
          [] s = "DigitalIO" -> DigitalIO
          [] s = "ProtocolCAN" -> ProtocolCAN
          [] s = "ProtocolUART" -> ProtocolUART
          [] s = "ProtocolI2C" -> ProtocolI2C
          [] s = "ProtocolSPI" -> ProtocolSPI
          [] s = "AnalogOutSimple" -> AnalogOutSimple
          [] s = "AnalogOutPlayCustomWaveform" -> AnalogOutPlayCustomWaveform
          [] s = "AnalogOutSpinningGlobe" -> AnalogOutSpinningGlobe
          [] s = "DigitalDiscoveryLedBrightnessParameter" -> DigitalDiscoveryLedBrightnessParameter]

\* main() of each script: whether DwfLibrary() is created inside the try
\* statement, and the exceptions the try statement has handlers for.
Main ==
    [s \in Scripts |->
        CASE s = "AnalogInSimple" ->
                [libInTry |-> TRUE, handlers |-> {"PyDwfError", "KeyboardInterrupt"}]
          [] s = "AnalogInRecordMode" ->
                [libInTry |-> FALSE, handlers |-> {"PyDwfError"}]
          [] s = "AnalogInShiftScanShiftScreenDemo" ->
                [libInTry |-> FALSE, handlers |-> {"PyDwfError"}]
          [] s = "DigitalIO" ->
                [libInTry |-> TRUE, handlers |-> {"PyDwfError", "KeyboardInterrupt"}]
          [] s = "ProtocolCAN" ->
                [libInTry |-> TRUE, handlers |-> {"PyDwfError", "KeyboardInterrupt"}]
          [] s = "ProtocolUART" ->
                [libInTry |-> TRUE, handlers |-> {"PyDwfError", "KeyboardInterrupt"}]
          [] s = "ProtocolI2C" ->
                [libInTry |-> TRUE, handlers |-> {"PyDwfError", "KeyboardInterrupt"}]
          [] s = "ProtocolSPI" ->
                [libInTry |-> TRUE, handlers |-> {"PyDwfError", "KeyboardInterrupt"}]
          [] s = "AnalogOutSimple" ->
                [libInTry |-> TRUE, handlers |-> {"PyDwfError", "KeyboardInterrupt"}]
          [] s = "AnalogOutPlayCustomWaveform" ->
                [libInTry |-> TRUE, handlers |-> {"PyDwfError", "KeyboardInterrupt"}]
          [] s = "AnalogOutSpinningGlobe" ->
                [libInTry |-> TRUE, handlers |-> {"PyDwfError", "KeyboardInterrupt"}]
          [] s = "DigitalDiscoveryLedBrightnessParameter" ->
                [libInTry |-> TRUE, handlers |-> {"PyDwfError", "KeyboardInterrupt"}]]

\* The try statement inside a demo function: the instructions of its try
\* block and of its finally block (DigitalIO.py, lines 59-68).
TryFinally ==
    [s \in Scripts |->
        IF s = "DigitalIO"
        THEN [try |-> 17..22, fin |-> 23..23]
        ELSE [try |-> {}, fin |-> {}]]

(***************************************************************************)
(* main() of the example scripts: the operations.                          *)
(***************************************************************************)

\* The except clauses of main(): the exception is printed by a handler, or
\* leaves main().
Caught(s, exc) == exc \in Main[s].handlers

\* The with statement closes the device when its body is left, with or
\* without an exception.
ClosesOnNormalExit(exc) == exc = "none"
ClosesOnExit(exc) == TRUE

\* Where control goes when instruction i of script s raises: to the finally
\* block when i is inside a try block, and out of the with statement (0)
\* otherwise.
AfterRaiseRetry(s, i) == i
AfterRaise(s, i) ==
    IF i \in TryFinally[s].try
    THEN CHOOSE f \in TryFinally[s].fin : \A g \in TryFinally[s].fin : f <= g
    ELSE 0

\* Instruction n is not run: the body has ended, or an exception propagates and
\* n is outside the finally block.
Leaves(s, n, exc) ==
    \/ n = 0
    \/ n > Len(Code[s])
    \/ exc # "none" /\ n \notin TryFinally[s].fin

\* The log of the device after an instrument call.
LogCall(log) == IF log # <<>> /\ log[Len(log)] = "call" THEN log ELSE Append(log, "call")

ScriptsInit ==
    /\ script \in Scripts
    /\ sPc = "lib"
    /\ ip = 1
    /\ iter = 0
    /\ rep = 0
    /\ device = "unopened"
    /\ pending = "none"
    /\ outcome = "none"
    /\ failedAt = 0
    /\ afterFail = <<>>
    /\ callLog = <<>>
    /\ deviceLog = <<>>

\* The state before a script is run.
ScriptsIdle ==
    /\ script = "none"
    /\ sPc = "lib"
    /\ ip = 1
    /\ iter = 0
    /\ rep = 0
    /\ device = "unopened"
    /\ pending = "none"
    /\ outcome = "none"
    /\ failedAt = 0
    /\ afterFail = <<>>
    /\ callLog = <<>>
    /\ deviceLog = <<>>

\* Control moves on to instruction n, or leaves the with statement.
Advance(n) ==
    IF Leaves(script, n, pending)
    THEN sPc' = "exit" /\ UNCHANGED ip
    ELSE sPc' = "body" /\ ip' = n

\* Instruction ip raises exc.
Unwind(exc) ==
    /\ pending' = exc
    /\ LET n == AfterRaise(script, ip) IN
        IF n = 0
        THEN sPc' = "exit" /\ UNCHANGED ip
        ELSE sPc' = "body" /\ ip' = n

\* An exception raised before the with statement is entered: a handler of the
\* try statement takes it when the raising statement is inside the try.
RaiseInMain(exc, inTry) ==
    /\ pending' = exc
    /\ IF inTry
       THEN sPc' = "handlers" /\ UNCHANGED outcome
       ELSE sPc' = "done" /\ outcome' = "propagated"

\* dwf = DwfLibrary()
ScrLib ==
    /\ sPc = "lib"
    /\ \E r \in {"PyDwfError", "ok"} :
        IF r = "ok"
        THEN sPc' = "open" /\ UNCHANGED <<pending, outcome>>
        ELSE RaiseInMain(r, Main[script].libInTry)
    /\ UNCHANGED <<script, ip, iter, rep, device, failedAt, afterFail, callLog, deviceLog>>
    /\ UNCHANGED notScripts

\* with openDwfDevice(dwf, ...) as device: the device is opened, or
\* PyDwfError is raised.
ScrOpen ==
    /\ sPc = "open"
    /\ \E r \in {"PyDwfError", "ok"} :
        IF r = "ok"
        THEN /\ device' = "open"
             /\ deviceLog' = Append(deviceLog, "open")
             /\ UNCHANGED <<pending, outcome>>
             /\ sPc' = "body"
        ELSE /\ RaiseInMain(r, TRUE)
             /\ UNCHANGED <<device, deviceLog>>
    /\ UNCHANGED <<script, ip, iter, rep, failedAt, afterFail, callLog>>
    /\ UNCHANGED notScripts

\* A call of the SDK on the device returns, or raises PyDwfError.
ScrCall ==
    /\ sPc = "body"
    /\ Code[script][ip].op = "call"
    /\ deviceLog' = LogCall(deviceLog)
    /\ afterFail' = IF failedAt # 0 THEN Append(afterFail, ip) ELSE afterFail
    /\ callLog' = Append(callLog, ip)
    /\ \E r \in {"PyDwfError", "ok"} :
        IF r = "ok"
        THEN Advance(ip + 1) /\ UNCHANGED <<pending, failedAt>>
        ELSE /\ Unwind(r)
             /\ failedAt' = IF failedAt = 0 THEN ip ELSE failedAt
    /\ UNCHANGED <<script, iter, rep, device, outcome>>
    /\ UNCHANGED notScripts

\* time.sleep, plt.pause, input, frame_queue.get, Thread.start, Thread.join.
ScrWait ==
    /\ sPc = "body"
    /\ Code[script][ip].op = "wait"
    /\ Advance(ip + 1)
    /\ UNCHANGED <<script, iter, rep, device, pending, outcome, failedAt, afterFail, callLog,
                   deviceLog>>
    /\ UNCHANGED notScripts

\* An if, a loop test or a break: the branch is taken or not.
ScrBranch ==
    /\ sPc = "body"
    /\ Code[script][ip].op = "branch"
    /\ \E taken \in BOOLEAN : Advance(IF taken THEN Code[script][ip].to ELSE ip + 1)
    /\ UNCHANGED <<script, iter, rep, device, pending, outcome, failedAt, afterFail, callLog,
                   deviceLog>>
    /\ UNCHANGED notScripts

\* The end of the body of a while loop: back to its head.
ScrJump ==
    /\ sPc = "body"
    /\ Code[script][ip].op = "jump"
    /\ iter < MaxIter
    /\ iter' = iter + 1
    /\ Advance(Code[script][ip].to)
    /\ UNCHANGED <<script, rep, device, pending, outcome, failedAt, afterFail, callLog, deviceLog>>
    /\ UNCHANGED notScripts

\* for rep in range(100): the next pass, or the end of the loop.
ScrFor ==
    /\ sPc = "body"
    /\ Code[script][ip].op = "for"
    /\ IF rep < DigitalIOReps
       THEN rep' = rep + 1 /\ Advance(ip + 1)
       ELSE UNCHANGED rep /\ Advance(Code[script][ip].to)
    /\ UNCHANGED <<script, iter, device, pending, outcome, failedAt, afterFail, callLog, deviceLog>>
    /\ UNCHANGED notScripts

\* The end of the body of the for loop: back to its head.
ScrEndFor ==
    /\ sPc = "body"
    /\ Code[script][ip].op = "endfor"
    /\ Advance(Code[script][ip].to)
    /\ UNCHANGED <<script, iter, rep, device, pending, outcome, failedAt, afterFail, callLog,
                   deviceLog>>
    /\ UNCHANGED notScripts

\* A raise statement, a failing assert, or a library call that raises an
\* exception other than PyDwfError.
ScrRaise ==
    /\ sPc = "body"
    /\ Code[script][ip].op = "raise"
    /\ Unwind(Code[script][ip].name)
    /\ UNCHANGED <<script, iter, rep, device, outcome, failedAt, afterFail, callLog, deviceLog>>
    /\ UNCHANGED notScripts

\* Ctrl-C: KeyboardInterrupt is raised in the main thread, wherever it is.
ScrInterrupt ==
    /\ sPc \in {"lib", "open", "body"}
    /\ IF sPc = "body"
       THEN Unwind("KeyboardInterrupt") /\ UNCHANGED outcome
       ELSE /\ RaiseInMain("KeyboardInterrupt", sPc = "open" \/ Main[script].libInTry)
            /\ UNCHANGED ip
    /\ UNCHANGED <<script, iter, rep, device, failedAt, afterFail, callLog, deviceLog>>
    /\ UNCHANGED notScripts

\* The with statement is left: the device is closed.
ScrExit ==
    /\ sPc = "exit"
    /\ IF ClosesOnExit(pending)
       THEN device' = "closed" /\ deviceLog' = Append(deviceLog, "close")
       ELSE UNCHANGED <<device, deviceLog>>
    /\ sPc' = "handlers"
    /\ UNCHANGED <<script, ip, iter, rep, pending, outcome, failedAt, afterFail, callLog>>
    /\ UNCHANGED notScripts

\* The end of the try statement of main(): main returns, a handler prints the
\* exception, or the exception leaves main().
ScrHandlers ==
    /\ sPc = "handlers"
    /\ outcome' = IF pending = "none" THEN "returned"
                  ELSE IF Caught(script, pending) THEN "printed"
                  ELSE "propagated"
    /\ sPc' = "done"
    /\ UNCHANGED <<script, ip, iter, rep, device, pending, failedAt, afterFail, callLog,
                   deviceLog>>
    /\ UNCHANGED notScripts

ScriptsNext ==
    \/ ScrLib
    \/ ScrOpen
    \/ ScrCall
    \/ ScrWait
    \/ ScrBranch
    \/ ScrJump
    \/ ScrFor
    \/ ScrEndFor
    \/ ScrRaise
    \/ ScrInterrupt
    \/ ScrExit
    \/ ScrHandlers

(***************************************************************************)
(* gshhs.py, GSHHS_Polygon: the operations.                                *)
(***************************************************************************)

\* The bit positions the flag words of the model are made of: the ends of
\* every field, positions inside and between the fields, and the sign bit.
FlagBits == {0, 3, 7, 8, 12, 15, 16, 17, 23, 24, 25, 26, 31}

\* The 32-bit word with the bits b set, as an unsigned number (bit 31 left out).
RECURSIVE WordOf(_)
WordOf(b) ==
    IF b = {} THEN 0
    ELSE LET i == CHOOSE j \in b : TRUE IN 2^i + WordOf(b \ {i})

\* int(poly_header["flag"]): the field is '>i4', a signed 32-bit integer.
Int32(b) ==
    IF 31 \in b THEN (WordOf(b \ {31}) - 2147483647) - 1 ELSE WordOf(b)

\* Python's a >> k on an int of any sign: the floor of a / 2^k.
PyRShift(a, k) == a \div (2^k)

\* Python's a & m for m >= 0 on an int of any sign (two's complement).
RECURSIVE PyAnd(_, _)
PyAnd(a, m) ==
    IF m = 0 THEN 0
    ELSE (a % 2) * (m % 2) + 2 * PyAnd(a \div 2, m \div 2)

\* Lines 57-80: the properties of GSHHS_Polygon.
level(f) == PyAnd(f, 255)
versionShiftedBy7(f) == PyAnd(PyRShift(f, 7), 255)
version(f) == PyAnd(PyRShift(f, 8), 255)
greenwich(f) == PyAnd(PyRShift(f, 16), 1)
source(f) == PyAnd(PyRShift(f, 24), 1)
river(f) == PyAnd(PyRShift(f, 25), 1)

\* Lines 42-55: the polygon is made from a header.
PolygonInit ==
    /\ bits \in SUBSET FlagBits
    /\ flag = Int32(bits)
    /\ property = "none"
    /\ value = 0

\* The state before a polygon is read.
PolygonIdle ==
    /\ bits = {}
    /\ flag = 0
    /\ property = "none"
    /\ value = 0

ReadLevel ==
    /\ property' = "level"
    /\ value' = level(flag)
    /\ UNCHANGED <<bits, flag>>
    /\ UNCHANGED notPolygon

ReadVersion ==
    /\ property' = "version"
    /\ value' = version(flag)
    /\ UNCHANGED <<bits, flag>>
    /\ UNCHANGED notPolygon

ReadGreenwich ==
    /\ property' = "greenwich"
    /\ value' = greenwich(flag)
    /\ UNCHANGED <<bits, flag>>
    /\ UNCHANGED notPolygon

ReadSource ==
    /\ property' = "source"
    /\ value' = source(flag)
    /\ UNCHANGED <<bits, flag>>
    /\ UNCHANGED notPolygon

ReadRiver ==
    /\ property' = "river"
    /\ value' = river(flag)
    /\ UNCHANGED <<bits, flag>>
    /\ UNCHANGED notPolygon

PolygonNext == ReadLevel \/ ReadVersion \/ ReadGreenwich \/ ReadSource \/ ReadRiver

(***************************************************************************)
(* The settings helpers: the operations.                                   *)
(***************************************************************************)

\* The if statements of each helper in their order: the argument tested and
\* the setter called with it.
set_analog_output_node_settings ==
    << <<"enable", "nodeEnableSet">>,
       <<"func", "nodeFunctionSet">>,
       <<"frequency", "nodeFrequencySet">>,
       <<"amplitude", "nodeAmplitudeSet">>,
       <<"offset", "nodeOffsetSet">>,
       <<"symmetry", "nodeSymmetrySet">>,
       <<"phase", "nodePhaseSet">> >>

change_digital_output_global_settings ==
    << <<"trigger_source", "triggerSourceSet">>,
       <<"run_duration", "runSet">>,
       <<"wait_duration", "waitSet">>,
       <<"repeat_count", "repeatSet">>,
       <<"trigger_slope", "triggerSlopeSet">>,
       <<"repeat_trigger_flag", "repeatTriggerSet">> >>

change_digital_output_channel_settings ==
    << <<"enable_flag", "enableSet">>,
       <<"output", "outputSet">>,
       <<"type_", "typeSet">>,
       <<"idle_mode", "idleSet">>,
       <<"divider_init", "dividerInitSet">>,
       <<"divider", "dividerSet">>,
       <<"counter_init_high_and_value", "counterInitSet">>,
       <<"counter_low_and_high", "counterSet">> >>

Helpers ==
    { "set_analog_output_node_settings",
      "change_digital_output_global_settings",
      "change_digital_output_channel_settings" }

IfStatements(h) ==
    CASE h = "set_analog_output_node_settings" -> set_analog_output_node_settings
      [] h = "change_digital_output_global_settings" -> change_digital_output_global_settings
      [] h = "change_digital_output_channel_settings" -> change_digital_output_channel_settings

ArgumentsOf(h) == {IfStatements(h)[i][1] : i \in 1..Len(IfStatements(h))}
SettersOf(h) == {IfStatements(h)[i][2] : i \in 1..Len(IfStatements(h))}

\* What a caller passes for an optional argument: None, or a value, which may be
\* a false one (False, 0, 0.0).
OptionalValues == {<<>>, <<0>>, <<1>>}

\* "if <argument> is not None"
IsGivenTruthy(a) == a # <<>> /\ a[1] # 0
IsGiven(a) == a # <<>>

SettingsInit ==
    /\ helper \in Helpers
    /\ args \in [ArgumentsOf(helper) -> OptionalValues]
    /\ registers = [s \in SettersOf(helper) |-> 2]
    /\ before = registers
    /\ setPc = 1
    /\ setterCalls = <<>>

\* The state before a helper is called.
SettingsIdle ==
    /\ helper = "none"
    /\ args = <<>>
    /\ registers = <<>>
    /\ before = <<>>
    /\ setPc = 1
    /\ setterCalls = <<>>

\* An if statement whose argument is given: the setter is called; it sets the
\* setting, or raises PyDwfError.
CallSetter ==
    /\ setPc \in 1..Len(IfStatements(helper))
    /\ LET arg == IfStatements(helper)[setPc][1]
           setter == IfStatements(helper)[setPc][2]
       IN  /\ IsGiven(args[arg])
           /\ setterCalls' = Append(setterCalls, <<setter, args[arg][1]>>)
           /\ \E r \in {"PyDwfError", "ok"} :
                IF r = "ok"
                THEN /\ registers' = [registers EXCEPT ![setter] = args[arg][1]]
                     /\ setPc' = setPc + 1
                ELSE /\ setPc' = 0
                     /\ UNCHANGED registers
    /\ UNCHANGED <<helper, args, before>>
    /\ UNCHANGED notSettings

\* An if statement whose argument is None: nothing is called.
SkipSetter ==
    /\ setPc \in 1..Len(IfStatements(helper))
    /\ ~IsGiven(args[IfStatements(helper)[setPc][1]])
    /\ setPc' = setPc + 1
    /\ UNCHANGED <<helper, args, registers, setterCalls, before>>
    /\ UNCHANGED notSettings

SettingsNext == CallSetter \/ SkipSetter

(***************************************************************************)
(* analog_output_node_utilities.py, analog_output_signal_simulator: the    *)
(* operations.  Frequencies are in Hz, phases in degrees, times in         *)
(* quarters of a second; a node's signal is in halves, the carrier signal  *)
(* after modulation and the waveform returned are in units of 1/400.       *)
(***************************************************************************)

\* The functions _calculate_signal has a branch for (lines 90-162).
SupportedFunctions ==
    {"DC", "Sine", "Square", "Triangle", "RampUp", "RampDown", "Pulse", "Trapezium",
     "SinePower"}

\* DwfAnalogOutFunction
Functions == SupportedFunctions \cup {"Noise", "Custom", "Play"}

\* Line 88: x = t * frequency + phase / 360.0, mod 1, in quarters of a period.
XQuarter(settings, time) == (time * settings.frequency + settings.phase \div 90) % 4

\* Lines 90-162 at symmetry 50: one period of each function at x = 0, 1/4,
\* 1/2, 3/4, in halves.
Period(function) ==
    CASE function = "DC" -> <<0, 0, 0, 0>>
      [] function = "Sine" -> <<0, 2, 0, -2>>
      [] function = "Square" -> <<2, 2, 0, -2>>
      [] function = "Triangle" -> <<0, 2, 0, -2>>
      [] function = "RampUp" -> <<-2, 0, 2, 2>>
      [] function = "RampDown" -> <<2, 2, 2, 0>>
      [] function = "Pulse" -> <<2, 2, 1, 0>>
      [] function = "Trapezium" -> <<0, 2, 0, -2>>
      [] function = "SinePower" -> <<0, 2, 0, -2>>

\* _calculate_signal(settings, t): the signal, or RuntimeError (line 165).
calculate_signal(settings, times) ==
    IF settings.function \in SupportedFunctions
    THEN [raised |-> FALSE,
          y |-> [i \in 1..Len(times) |->
                    Period(settings.function)[XQuarter(settings, times[i]) + 1]]]
    ELSE [raised |-> TRUE, y |-> <<>>]

\* Line 175: if fm_settings is not None
FmIgnored(fm) == FALSE
FmRejected(fm) == fm # <<>>

\* Line 186: the carrier signal, amplitude modulated.
Modulated(am, am_signal, carrier_signal) ==
    [i \in 1..Len(carrier_signal) |->
        (2 * (100 + am.offset) + am.amplitude * am_signal[i]) * carrier_signal[i]]

\* Line 189: return carrier_settings.offset + carrier_settings.amplitude * carrier_signal
ReturnedWhenEnabled(carrier, carrier_signal) ==
    [i \in 1..Len(carrier_signal) |->
        (IF carrier.enable THEN 400 * carrier.offset ELSE 0)
            + carrier.amplitude * carrier_signal[i]]
Returned(carrier, carrier_signal) ==
    [i \in 1..Len(carrier_signal) |->
        400 * carrier.offset + carrier.amplitude * carrier_signal[i]]

\* Lines 170-189.
analog_output_signal_simulator(carrier, am, fm, times) ==
    IF FmRejected(fm) THEN [raised |-> TRUE, y |-> <<>>]
    ELSE
    LET carrier_signal ==
            IF carrier.enable THEN calculate_signal(carrier, times)
            ELSE [raised |-> FALSE, y |-> [i \in 1..Len(times) |-> 0]]
    IN  IF carrier_signal.raised THEN [raised |-> TRUE, y |-> <<>>]
        ELSE IF am # <<>> /\ am[1].enable
        THEN LET am_signal == calculate_signal(am[1], times)
             IN  IF am_signal.raised THEN [raised |-> TRUE, y |-> <<>>]
                 ELSE [raised |-> FALSE,
                       y |-> Returned(carrier,
                                      Modulated(am[1], am_signal.y, carrier_signal.y))]
        ELSE [raised |-> FALSE,
              y |-> Returned(carrier, [i \in 1..Len(times) |-> 200 * carrier_signal.y[i]])]

\* The settings the simulator is called with.
CarrierSettings ==
    [enable : BOOLEAN, function : Functions, frequency : {1}, amplitude : {-1, 2},
     offset : {0, 3}, symmetry : {50}, phase : {0}]
ModulatorSettings ==
    [enable : BOOLEAN, function : Functions, frequency : {1}, amplitude : {50},
     offset : {0, -20}, symmetry : {50}, phase : {90}]

SimulatorInit ==
    /\ carrier_settings \in CarrierSettings
    /\ am_settings \in {<<>>} \cup {<<s>> : s \in ModulatorSettings}
    /\ fm_settings \in {<<>>, <<[enable |-> FALSE, function |-> "Sine", frequency |-> 1,
                                 amplitude |-> 50, offset |-> 0, symmetry |-> 50,
                                 phase |-> 0]>>}
    /\ t = <<0, 1, 2, 3>>
    /\ simPc = "call"
    /\ waveform = <<>>

\* The state before the simulator is called.
SimulatorIdle ==
    /\ carrier_settings = <<>>
    /\ am_settings = <<>>
    /\ fm_settings = <<>>
    /\ t = <<>>
    /\ simPc = "call"
    /\ waveform = <<>>

\* The call of analog_output_signal_simulator.
Simulate ==
    /\ simPc = "call"
    /\ LET r == analog_output_signal_simulator(carrier_settings, am_settings,
                                               fm_settings, t)
       IN  /\ simPc' = IF r.raised THEN "raised" ELSE "returned"
           /\ waveform' = r.y
    /\ UNCHANGED <<carrier_settings, am_settings, fm_settings, t>>
    /\ UNCHANGED notSimulator

SimulatorNext == Simulate

\* The initial states of each specification: its own part is started, the
\* other parts are idle.
InitGlobe == GlobeInit /\ RecordIdle /\ GshhsIdle /\ ScriptsIdle /\ PolygonIdle /\ SettingsIdle /\ SimulatorIdle
InitRecord == RecordInit /\ GlobeIdle /\ GshhsIdle /\ ScriptsIdle /\ PolygonIdle /\ SettingsIdle /\ SimulatorIdle
InitGshhs == GshhsInit /\ GlobeIdle /\ RecordIdle /\ ScriptsIdle /\ PolygonIdle /\ SettingsIdle /\ SimulatorIdle
InitScripts == ScriptsInit /\ GlobeIdle /\ RecordIdle /\ GshhsIdle /\ PolygonIdle /\ SettingsIdle /\ SimulatorIdle
InitPolygon == PolygonInit /\ GlobeIdle /\ RecordIdle /\ GshhsIdle /\ ScriptsIdle /\ SettingsIdle /\ SimulatorIdle
InitSettings == SettingsInit /\ GlobeIdle /\ RecordIdle /\ GshhsIdle /\ ScriptsIdle /\ PolygonIdle /\ SimulatorIdle
InitSimulator == SimulatorInit /\ GlobeIdle /\ RecordIdle /\ GshhsIdle /\ ScriptsIdle /\ PolygonIdle /\ SettingsIdle

SpecGlobe == InitGlobe /\ [][GlobeNext]_vars

SpecRecord == InitRecord /\ [][RecordNext]_vars

SpecGshhs == InitGshhs /\ [][GshhsNext]_vars

SpecScripts == InitScripts /\ [][ScriptsNext]_vars

SpecPolygon == InitPolygon /\ [][PolygonNext]_vars

SpecSettings == InitSettings /\ [][SettingsNext]_vars

SpecSimulator == InitSimulator /\ [][SimulatorNext]_vars

(***************************************************************************)
(* Two strings are the same but for the case of their letters.             *)
(***************************************************************************)
CasePairs == {<<"Y", "y">>, <<"E", "e">>, <<"S", "s">>, <<"N", "n">>, <<"O", "o">>}

SameIgnoringCase(a, b) ==
    /\ Len(a) = Len(b)
    /\ \A i \in 1..Len(a) :
        a[i] = b[i] \/ <<a[i], b[i]>> \in CasePairs \/ <<b[i], a[i]>> \in CasePairs

SaysYes(answer) ==
    SameIgnoringCase(answer, <<"y">>) \/ SameIgnoringCase(answer, <<"y", "e", "s">>)

(***************************************************************************)
(* C10: the zip file is downloaded only if necessary and only with the     *)
(* user's permission: a call that finds the file asks nothing and          *)
(* downloads nothing; a download starts only after the user answered 'y'   *)
(* or 'yes' in any case; after any other answer nothing is downloaded and  *)
(* no file is created.                                                     *)
(***************************************************************************)
C10_DownloadOnlyWithPermission ==
    /\ (ensureCalls > 0 /\ fileAtCall # "absent") =>
            ~prompted /\ ~downloadStarted /\ zipfile = fileAtCall
    /\ (gzPc \in {"urlopen", "open", "copy"} \/ downloadStarted) =>
            prompted /\ fileAtCall = "absent" /\ SaysYes(response)
    /\ (prompted /\ ~SaysYes(response)) =>
            ~downloadStarted /\ zipfile = "absent" /\ gzPc = "raised"

\* The file was missing, the user answered "Yes" and the copy is under way.
C10_Witness ==
    /\ gzPc = "copy"
    /\ fileAtCall = "absent"
    /\ response = <<"Y", "e", "s">>
    /\ zipfile = "empty"

(***************************************************************************)
(* What the device handed over in the polls of the acquisition, from the   *)
(* history: per poll, a placeholder row for each lost sample, then a row   *)
(* of both channels for each available sample.                             *)
(***************************************************************************)
PollRows(p, poll) ==
    [i \in 1..poll.lost |-> <<NaN, NaN>>]
        \o [i \in 1..poll.available |-> <<<<0, p, i>>, <<1, p, i>>>>]

RECURSIVE RowsUpTo(_)
RowsUpTo(k) == IF k = 0 THEN <<>> ELSE RowsUpTo(k - 1) \o PollRows(k, polls[k])

RECURSIVE SumOver(_, _)
SumOver(k, field) == IF k = 0 THEN 0 ELSE SumOver(k - 1, field) + polls[k][field]

EndsWith(whole, tail) ==
    /\ Len(tail) <= Len(whole)
    /\ SubSeq(whole, Len(whole) - Len(tail) + 1, Len(whole)) = tail

\* The polling loop of the acquisition was left by its break.
PollingLoopLeft == recPc \in {"after", "plot", "returned"} \/ recExc = "ValueError"

(***************************************************************************)
(* C5: within one acquisition the poll is repeated until status() returns  *)
(* Done: no poll follows a poll that returned Done, the loop is left only  *)
(* after a Done poll, and the rows of that last poll are in the record     *)
(* when the loop is left.                                                  *)
(***************************************************************************)
C5_PollUntilDone ==
    /\ \A i \in 1..(Len(polls) - 1) : polls[i].status # "Done"
    /\ (recPc = "poll" /\ polls # <<>>) => polls[Len(polls)].status # "Done"
    /\ PollingLoopLeft =>
        /\ polls # <<>>
        /\ polls[Len(polls)].status = "Done"
        /\ EndsWith(Concatenate(samples), PollRows(Len(polls), polls[Len(polls)]))

\* The loop was left after a second poll that returned Done with lost and
\* available samples.
C5_Witness ==
    /\ recPc = "after"
    /\ Len(polls) = 2
    /\ polls[2].lost > 0
    /\ polls[2].available > 0

(***************************************************************************)
(* C6: for any sequence of poll results ending with Done, the chunks are   *)
(* concatenated in arrival order and all but the last num_samples rows are *)
(* discarded: the record has length min(rows collected, num_samples) and   *)
(* holds the most recent rows in their order.                              *)
(***************************************************************************)
C6_KeepsMostRecentRows ==
    (recPc = "plot" \/ recExc = "ValueError") =>
        /\ recExc = "none"
        /\ Len(record) = Min(Len(RowsUpTo(Len(polls))), num_samples)
        /\ EndsWith(RowsUpTo(Len(polls)), record)

(***************************************************************************)
(* C7: every poll that reports L lost and A available samples appends L    *)
(* NaN rows and then the A rows of both channels, so the rows collected    *)
(* are the sum over the polls of L + A, and the totals of lost and         *)
(* corrupted samples are the sums over the polls of this acquisition only. *)
(***************************************************************************)
C7_LostSamplesFilled ==
    recExc # "PyDwfError" =>
        /\ Concatenate(samples) = RowsUpTo(Len(polls))
        /\ Len(Concatenate(samples))
               = SumOver(Len(polls), "lost") + SumOver(Len(polls), "available")
        /\ total_samples_lost = SumOver(Len(polls), "lost")
        /\ total_samples_corrupted = SumOver(Len(polls), "corrupted")

\* The second acquisition ended after two polls, the first with lost, available
\* and corrupted samples.
C7_Witness ==
    /\ recPc = "after"
    /\ acquisition_nr = 2
    /\ Len(polls) = 2
    /\ polls[1].lost > 0
    /\ polls[1].available > 0
    /\ polls[1].corrupted > 0

(***************************************************************************)
(* C2: once Enter is pressed (the event is set), the producer stops, the   *)
(* analog-out loop drains the queue and exits and spinning_globe_demo      *)
(* returns, under every interleaving.  A main thread that waits in         *)
(* frame_queue.get() on an empty queue after the producer thread has ended *)
(* can never return: the claim says no such state is reached.              *)
(***************************************************************************)
C2_EnterLeadsToReturn ==
    event => ~(mainPc = "get" /\ frame_queue = <<>> /\ ~ProducerAlive)

(***************************************************************************)
(* C3: when the analog-out loop is ended by a KeyboardInterrupt or a       *)
(* PyDwfError caught in main, no thread is left blocked forever: the       *)
(* producer is not left waiting in frame_queue.put on a full queue that    *)
(* nobody reads any more.                                                  *)
(***************************************************************************)
C3_NoThreadLeftBlocked ==
    (mainPc = "handled" /\ excAt \in AnalogOutLoop)
        => ~(prodPc = "put" /\ QueueFull(frame_queue))

(***************************************************************************)
(* C4: the queue never holds more than 5 frames, and the frames taken by   *)
(* the main thread followed by the frames still queued are exactly the     *)
(* frames produced so far, 0, 1, 2, ..., in that order.                    *)
(***************************************************************************)
C4_BoundedFifo ==
    /\ Len(frame_queue) <= QueueMaxsize
    /\ consumed \o frame_queue = [i \in 1..frame |-> i - 1]

\* The queue is full, the producer waits to put frame 6, frames were consumed.
C4_Witness ==
    /\ Len(frame_queue) = QueueMaxsize
    /\ prodPc = "put"
    /\ Len(consumed) >= 1

(***************************************************************************)
(* C1: in every script's main(), a PyDwfError raised by any SDK call of    *)
(* the script (creating the DwfLibrary and opening the device included)    *)
(* and a KeyboardInterrupt are caught by handlers of main() and printed:   *)
(* when main() has ended with one of them raised, a handler printed it.    *)
(***************************************************************************)
C1_CaughtAtEntryPoint ==
    (sPc = "done" /\ pending \in {"PyDwfError", "KeyboardInterrupt"})
        => outcome = "printed"

(***************************************************************************)
(* C8, as stated: after a call of the SDK failed with PyDwfError the       *)
(* script issues no further instrument call before the device is closed.   *)
(***************************************************************************)
C8_NoCallAfterFailure ==
    failedAt # 0 => afterFail = <<>>

(***************************************************************************)
(* C8, amended: after a call of the SDK failed with PyDwfError the failed  *)
(* call is never issued again, and the only instrument call that follows   *)
(* it is, in DigitalIO.py when the failure is inside the try block of      *)
(* demo_digital_io_api, the one outputEnableSet64(save_output_bits) of its *)
(* finally block.                                                          *)
(***************************************************************************)
C8_NoRetryButFinallyRestore ==
    failedAt # 0 =>
        /\ Len(afterFail) <= 1
        /\ \A k \in 1..Len(afterFail) :
            /\ afterFail[k] # failedAt
            /\ script = "DigitalIO"
            /\ failedAt \in TryFinally[script].try
            /\ afterFail[k] \in TryFinally[script].fin
            /\ Code[script][afterFail[k]].name
                   = "digitalIO.outputEnableSet64(save_output_bits)"

\* DigitalIO.py: a call inside the try block failed, the finally block made its
\* call, the device was closed and main printed the PyDwfError.
C8_Witness ==
    /\ script = "DigitalIO"
    /\ sPc = "done"
    /\ outcome = "printed"
    /\ pending = "PyDwfError"
    /\ failedAt \in TryFinally[script].try
    /\ Len(afterFail) = 1
    /\ device = "closed"

(***************************************************************************)
(* C9: every script opens the device, then makes its instrument calls,     *)
(* then closes the device: no call is made before the device is opened or  *)
(* after it is closed, and once the with statement has been left, by a     *)
(* return or by any exception, the device is closed.                       *)
(***************************************************************************)
C9_OpenCallsClose ==
    /\ deviceLog \in { <<>>, <<"open">>, <<"open", "call">>, <<"open", "close">>,
                       <<"open", "call", "close">> }
    /\ (sPc \in {"handlers", "done"} /\ deviceLog # <<>>) => device = "closed"
    /\ sPc \in {"lib", "open"} => device = "unopened"

\* AnalogOutPlayCustomWaveform.py was interrupted after instrument calls, and
\* has ended with the device closed.
C9_Witness ==
    /\ script = "AnalogOutPlayCustomWaveform"
    /\ sPc = "done"
    /\ pending = "KeyboardInterrupt"
    /\ deviceLog = <<"open", "call", "close">>

(***************************************************************************)
(* C11: ensure_gshhs_zipfile_is_available raises RuntimeError whenever it  *)
(* ends without the file being available: when the user's answer does not *)
(* permit the download, and when downloading the file fails (the download  *)
(* was started and the function ended by an exception).                    *)
(***************************************************************************)
C11_RuntimeErrorWhenUnavailable ==
    /\ (gzPc = "raised" /\ gzExc # "EOFError" /\ ~downloadStarted)
            => gzExc = "RuntimeError"
    /\ (gzPc = "raised" /\ downloadStarted) => gzExc = "RuntimeError"

(***************************************************************************)
(* The number the bits lo..hi of the flag word spell, bit lo counting 1.   *)
(***************************************************************************)
RECURSIVE FieldOf(_, _, _)
FieldOf(b, lo, hi) ==
    IF lo > hi THEN 0
    ELSE (IF hi \in b THEN 2^(hi - lo) ELSE 0) + FieldOf(b, lo, hi - 1)

(***************************************************************************)
(* C13: for every 32-bit flag word, level is the number in bits 0-7,       *)
(* version the number in bits 8-15 (both in 0..255), greenwich is bit 16,  *)
(* source is bit 24 and river is bit 25 (each 0 or 1): a field is a        *)
(* function of its own bits only.                                          *)
(***************************************************************************)
C13_FlagFieldsByBitPosition ==
    /\ property = "level" => value = FieldOf(bits, 0, 7) /\ value \in 0..255
    /\ property = "version" => value = FieldOf(bits, 8, 15) /\ value \in 0..255
    /\ property = "greenwich" => value = FieldOf(bits, 16, 16) /\ value \in 0..1
    /\ property = "source" => value = FieldOf(bits, 24, 24) /\ value \in 0..1
    /\ property = "river" => value = FieldOf(bits, 25, 25) /\ value \in 0..1

\* The version of a negative flag word (bit 31 set) with bits 7, 8, 15 and 16 set
\* was read.
C13_Witness ==
    /\ property = "version"
    /\ {7, 8, 15, 16, 31} \subseteq bits
    /\ flag < 0
    /\ value >= 129

(***************************************************************************)
(* The setter calls the first k if statements of the helper are to make:   *)
(* one for each argument that is not None, in the order of the statements. *)
(***************************************************************************)
RECURSIVE ExpectedCalls(_)
ExpectedCalls(k) ==
    IF k = 0 THEN <<>>
    ELSE LET arg == IfStatements(helper)[k][1]
             setter == IfStatements(helper)[k][2]
         IN  IF args[arg] = <<>>
             THEN ExpectedCalls(k - 1)
             ELSE Append(ExpectedCalls(k - 1), <<setter, args[arg][1]>>)

HelperReturned == helper # "none" /\ setPc = Len(IfStatements(helper)) + 1

(***************************************************************************)
(* C12: a settings helper calls the matching setter exactly once for each  *)
(* argument that is not None and makes no setter call for an argument that *)
(* is None: the calls made are at every moment the expected calls of the   *)
(* if statements passed, all of them when the helper has returned, and the *)
(* setting of an argument that is None keeps the value it had before.      *)
(***************************************************************************)
C12_SetOnlyWhatIsGiven ==
    helper # "none" =>
        /\ setPc # 0 => setterCalls = ExpectedCalls(setPc - 1)
        /\ setPc = 0 =>
            \E k \in 1..Len(IfStatements(helper)) : setterCalls = ExpectedCalls(k)
        /\ \A i \in 1..Len(IfStatements(helper)) :
            LET arg == IfStatements(helper)[i][1]
                setter == IfStatements(helper)[i][2]
            IN  /\ args[arg] = <<>> => registers[setter] = before[setter]
                /\ (HelperReturned /\ args[arg] # <<>>) => registers[setter] = args[arg][1]

\* change_digital_output_channel_settings has returned after it was called with
\* None, a false value and a true value among its arguments.
C12_Witness ==
    /\ helper = "change_digital_output_channel_settings"
    /\ HelperReturned
    /\ args["enable_flag"] = <<0>>
    /\ args["output"] = <<>>
    /\ args["divider"] = <<1>>
    /\ Len(setterCalls) = 5

(***************************************************************************)
(* The nine functions the simulator knows.                                 *)
(***************************************************************************)
NineFunctions ==
    {"DC", "Sine", "Square", "Triangle", "RampUp", "RampDown", "Pulse", "Trapezium",
     "SinePower"}

\* An enabled node of the call has a function that is not one of the nine.
EnabledNodeUnsupported ==
    \/ carrier_settings.enable /\ carrier_settings.function \notin NineFunctions
    \/ /\ am_settings # <<>>
       /\ am_settings[1].enable
       /\ am_settings[1].function \notin NineFunctions

\* The waveform is the carrier offset at every time point.
WaveformIsOffset ==
    /\ simPc = "returned"
    /\ Len(waveform) = Len(t)
    /\ \A i \in 1..Len(waveform) : waveform[i] = 400 * carrier_settings.offset

(***************************************************************************)
(* C15, as stated: when the carrier is disabled (and no FM settings are    *)
(* given) the predicted value is the carrier offset at every time point,   *)
(* whatever the carrier function, amplitude and AM settings are.           *)
(***************************************************************************)
C15_DisabledCarrierGivesOffset ==
    (simPc # "call" /\ ~carrier_settings.enable /\ fm_settings = <<>>)
        => WaveformIsOffset

(***************************************************************************)
(* C15, amended: when the carrier is disabled the predicted value is the   *)
(* carrier offset at every time point, whatever the carrier function and   *)
(* amplitude are, provided the simulator accepts the call: no FM settings  *)
(* are given and the AM node, if given and enabled, has one of the nine    *)
(* functions; otherwise RuntimeError is raised and nothing is predicted.   *)
(***************************************************************************)
C15_DisabledCarrierGivesOffsetIfAccepted ==
    (simPc # "call" /\ ~carrier_settings.enable) =>
        IF fm_settings = <<>> /\ ~EnabledNodeUnsupported
        THEN WaveformIsOffset
        ELSE simPc = "raised" /\ waveform = <<>>

\* A disabled carrier with a function the simulator does not know, an amplitude
\* and an offset, modulated by an enabled square wave: the waveform was returned.
C15_Witness ==
    /\ simPc = "returned"
    /\ ~carrier_settings.enable
    /\ carrier_settings.function = "Noise"
    /\ carrier_settings.amplitude = 2
    /\ carrier_settings.offset = 3
    /\ am_settings # <<>>
    /\ am_settings[1].enable
    /\ am_settings[1].function = "Square"

(***************************************************************************)
(* C16: the simulator raises RuntimeError and returns no waveform whenever *)
(* fm_settings is not None, whatever the other arguments are, and whenever *)
(* an enabled node's function is not one of the nine it knows.             *)
(***************************************************************************)
C16_RejectsUnsupported ==
    (simPc # "call" /\ (fm_settings # <<>> \/ EnabledNodeUnsupported))
        => simPc = "raised" /\ waveform = <<>>

\* The call was rejected for the function of the enabled AM node alone.
C16_Witness ==
    /\ simPc = "raised"
    /\ fm_settings = <<>>
    /\ carrier_settings.enable
    /\ carrier_settings.function = "Sine"
    /\ am_settings # <<>>
    /\ am_settings[1].enable
    /\ am_settings[1].function = "Custom"

(***************************************************************************)
(* The names of the calls the script has issued, in their order.           *)
(***************************************************************************)
CallNames == [i \in 1..Len(callLog) |-> Code[script][callLog[i]].name]

\* Call i was preceded by a call named n.
Preceded(i, n) == \E j \in 1..(i - 1) : CallNames[j] = n

(***************************************************************************)
(* C14: the bus-protocol demos initialise before they communicate.  In     *)
(* ProtocolCAN every message tx and rx comes after the initialising        *)
(* tx(-1, ...) and rx(0); in ProtocolUART every tx comes after the         *)
(* initialising rx(0).  From then on the calls alternate: a tx follows the *)
(* initialisation or an rx, and an rx follows a tx directly, so that each  *)
(* pass of the loop makes exactly one tx and then exactly one rx.          *)
(***************************************************************************)
C14_InitialiseBeforeCommunicating ==
    /\ script = "ProtocolCAN" =>
        \A i \in 1..Len(callLog) :
            /\ CallNames[i] \in {"can.tx", "can.rx"} =>
                    Preceded(i, "can.tx(-1)") /\ Preceded(i, "can.rx(0)")
            /\ CallNames[i] = "can.tx" => CallNames[i - 1] \in {"can.rx(0)", "can.rx"}
            /\ CallNames[i] = "can.rx" => CallNames[i - 1] = "can.tx"
    /\ script = "ProtocolUART" =>
        \A i \in 1..Len(callLog) :
            /\ CallNames[i] = "uart.tx" =>
                    /\ Preceded(i, "uart.rx(0)")
                    /\ CallNames[i - 1] \in {"uart.rx(0)", "uart.rx(100)"}
            /\ CallNames[i] = "uart.rx(100)" => CallNames[i - 1] = "uart.tx"

\* ProtocolCAN is in its second pass of the loop: after the initialisation it
\* has sent, received and sent again.
C14_Witness ==
    /\ script = "ProtocolCAN"
    /\ sPc = "body"
    /\ Len(callLog) = 10
    /\ CallNames[6] = "can.tx(-1)"
    /\ CallNames[7] = "can.rx(0)"
    /\ CallNames[10] = "can.tx"

(***************************************************************************)
(* C17: demo_simple_analog_out never starts the waveform generation: it    *)
(* resets, sets function, idle mode and enable on both channels, never     *)
(* calls analogOut.configure, and each pass of its loop makes only the two *)
(* calls nodeAmplitudeSet(CH1) and then nodeAmplitudeSet(CH2).             *)
(***************************************************************************)
C17_NeverConfigures ==
    script = "AnalogOutSimple" =>
        LET setup == << "analogOut.reset(-1)",
                        "analogOut.nodeFunctionSet(CH1)", "analogOut.idleSet(CH1)",
                        "analogOut.nodeEnableSet(CH1)",
                        "analogOut.nodeFunctionSet(CH2)", "analogOut.idleSet(CH2)",
                        "analogOut.nodeEnableSet(CH2)" >>
        IN  \A i \in 1..Len(callLog) :
                /\ CallNames[i] # "analogOut.configure"
                /\ i <= Len(setup) => CallNames[i] = setup[i]
                /\ i > Len(setup) =>
                    CallNames[i] = IF (i - Len(setup)) % 2 = 1
                                   THEN "analogOut.nodeAmplitudeSet(CH1)"
                                   ELSE "analogOut.nodeAmplitudeSet(CH2)"

\* demo_simple_analog_out has made two passes of its loop.
C17_Witness ==
    /\ script = "AnalogOutSimple"
    /\ Len(callLog) = 11
    /\ iter = 2
    /\ CallNames[11] = "analogOut.nodeAmplitudeSet(CH2)"

====
